---- MODULE Spec2Model ----
(***************************************************************************)
(* Riffy: a round-robin reverse proxy (src/src/main.rs).                   *)
(*                                                                         *)
(* main reads its configuration, optionally loads a TLS context, binds a   *)
(* listener and serves every accepted connection with handle_proxy, which  *)
(* draws an upstream from a shared atomic counter and relays the request.  *)
(*                                                                         *)
(* Strings are sequences of one-character strings, so that split, trim,    *)
(* format! and Uri parsing are computed character by character.            *)
(***************************************************************************)
EXTENDS Integers, Sequences, FiniteSets, TLC

----------------------------------------------------------------------------
(* Bounds of the model *)

\* connections the listener may accept in one run
MaxConns == 2
\* requests decoded over all connections in one run
MaxRequests == 3

\* width of usize, scaled to the narrowest usize a Rust target has
UsizeBits == 16
Modulus == 2 ^ UsizeBits

----------------------------------------------------------------------------
(* Text *)

Space == " "
Comma == ","

RECURSIVE SplitNonEmpty(_, _)
\* a split that keeps only the pieces that are not empty
SplitNonEmpty(s, sep) ==
    IF \E i \in 1..Len(s) : s[i] = sep
    THEN LET i == CHOOSE k \in 1..Len(s) :
                     s[k] = sep /\ \A j \in 1..(k - 1) : s[j] # sep
         IN  (IF i = 1 THEN <<>> ELSE <<SubSeq(s, 1, i - 1)>>)
             \o SplitNonEmpty(SubSeq(s, i + 1, Len(s)), sep)
    ELSE IF s = <<>> THEN <<>> ELSE <<s>>

RECURSIVE Split(_, _)
\* str::split(sep): the pieces between separators; "" yields one empty piece
Split(s, sep) ==
    IF \E i \in 1..Len(s) : s[i] = sep
    THEN LET i == CHOOSE k \in 1..Len(s) :
                     s[k] = sep /\ \A j \in 1..(k - 1) : s[j] # sep
         IN  <<SubSeq(s, 1, i - 1)>> \o Split(SubSeq(s, i + 1, Len(s)), sep)
    ELSE <<s>>

RECURSIVE TrimStart(_)
TrimStart(s) ==
    IF Len(s) > 0 /\ s[1] = Space THEN TrimStart(Tail(s)) ELSE s

RECURSIVE TrimEnd(_)
TrimEnd(s) ==
    IF Len(s) > 0 /\ s[Len(s)] = Space
    THEN TrimEnd(SubSeq(s, 1, Len(s) - 1)) ELSE s

\* str::trim
Trim(s) == TrimEnd(TrimStart(s))

\* the literal strings of the program and of the inputs
Http == <<"h", "t", "t", "p">>
SchemeSep == <<":", "/", "/">>
DefaultUpstream ==
    Http \o SchemeSep \o <<"l", "o", "c", "a", "l", "h", "o", "s", "t">>
         \o <<":", "8", "0", "8", "0">>
BaseA1 == Http \o SchemeSep \o <<"a", ":", "1">>
BaseB2 == Http \o SchemeSep \o <<"b", ":", "2">>
BaseC == Http \o SchemeSep \o <<"c">>

----------------------------------------------------------------------------
(* hyper::Uri: the parts of a URI, its Display and its FromStr *)

Letters == {"a", "b", "c", "h", "l", "o", "p", "s", "t", "x", "y"}
Digits == {"0", "1", "2", "3", "8"}
\* SCHEME_CHARS of the http crate, within the alphabet of the model
SchemeChars == Letters \cup Digits
\* characters a URI may hold; a space is not one of them
UriChars == SchemeChars \cup {":", "/", "?", "=", ","}

NoUri == [scheme |-> <<>>, authority |-> <<>>, path |-> <<>>,
          has_query |-> FALSE, query |-> <<>>]

Err == [ok |-> FALSE, uri |-> NoUri]
Ok(u) == [ok |-> TRUE, uri |-> u]

\* Scheme2::parse: the position of the ':' ending a scheme, 0 when none
SchemeEnd(s) ==
    IF Len(s) > 3 /\ \E i \in 1..Len(s) : s[i] \notin SchemeChars
    THEN LET i == CHOOSE k \in 1..Len(s) :
                     s[k] \notin SchemeChars
                     /\ \A j \in 1..(k - 1) : s[j] \in SchemeChars
         IN  IF s[i] = ":" /\ Len(s) >= i + 2
                /\ SubSeq(s, i + 1, i + 2) = <<"/", "/">>
             THEN i ELSE 0
    ELSE 0

\* Authority::parse: where the authority ends (Len(s) + 1 when nothing ends it)
AuthorityEnd(s) ==
    IF \E i \in 1..Len(s) : s[i] \in {"/", "?"}
    THEN CHOOSE k \in 1..Len(s) :
             s[k] \in {"/", "?"} /\ \A j \in 1..(k - 1) : s[j] \notin {"/", "?"}
    ELSE Len(s) + 1

\* Authority::parse fails on a character outside the URI set and on a second colon
AuthorityOk(s) ==
    LET a == SubSeq(s, 1, AuthorityEnd(s) - 1)
    IN  /\ \A i \in 1..Len(a) : a[i] \in UriChars
        /\ Cardinality({i \in 1..Len(a) : a[i] = ":"}) <= 1

\* PathAndQuery::from_shared: every character is checked, the first '?' splits
PathAndQueryParse(s) ==
    IF \E i \in 1..Len(s) : s[i] \notin UriChars
    THEN Err
    ELSE IF \E i \in 1..Len(s) : s[i] = "?"
    THEN LET q == CHOOSE k \in 1..Len(s) :
                     s[k] = "?" /\ \A j \in 1..(k - 1) : s[j] # "?"
         IN  Ok([NoUri EXCEPT !.path = SubSeq(s, 1, q - 1),
                              !.has_query = TRUE,
                              !.query = SubSeq(s, q + 1, Len(s))])
    ELSE Ok([NoUri EXCEPT !.path = s])

\* parse_full: scheme, then authority, then path and query
ParseFull(s) ==
    LET e == SchemeEnd(s)
        rest == IF e = 0 THEN s ELSE SubSeq(s, e + 3, Len(s))
        aend == AuthorityEnd(rest)
    IN  IF ~AuthorityOk(rest) THEN Err
        ELSE IF e = 0
        THEN IF aend # Len(rest) + 1 THEN Err
             ELSE Ok([NoUri EXCEPT !.authority = rest])
        ELSE IF aend = 1 THEN Err
        ELSE LET pq == PathAndQueryParse(SubSeq(rest, aend, Len(rest)))
             IN  IF ~pq.ok THEN Err
                 ELSE Ok([pq.uri EXCEPT
                            !.scheme = SubSeq(s, 1, e - 1),
                            !.authority = SubSeq(rest, 1, aend - 1)])

\* <Uri as FromStr>::from_str
ParseUri(s) ==
    IF Len(s) = 0 THEN Err
    ELSE IF s[1] = "/" THEN PathAndQueryParse(s)
    ELSE ParseFull(s)

\* Uri::path_and_query as text: the path, then '?' and the query if there is one
PathAndQuery(u) ==
    u.path \o (IF u.has_query THEN <<"?">> \o u.query ELSE <<>>)

\* Uri::path: "/" stands for an empty path once there is a scheme or a query
UriPath(u) ==
    IF u.path # <<>> THEN u.path
    ELSE IF u.scheme # <<>> \/ u.has_query THEN <<"/">>
    ELSE <<>>

\* <Uri as Display>::fmt: scheme "://", authority, path, then '?' and the query
Display(u) ==
    (IF u.scheme # <<>> THEN u.scheme \o SchemeSep ELSE <<>>)
    \o u.authority
    \o UriPath(u)
    \o (IF u.has_query THEN <<"?">> \o u.query ELSE <<>>)

----------------------------------------------------------------------------
(* The inputs: the environment of the process and the requests of its peers *)

\* UPSTREAM_SERVERS: unset, set and empty, three addresses with blanks
EnvUpstreams ==
    { [set |-> FALSE, val |-> <<>>],
      [set |-> TRUE, val |-> <<>>],
      [set |-> TRUE,
       val |-> <<Space>> \o BaseA1 \o <<"/", Space, Comma, Space>>
               \o BaseB2 \o <<Space, Comma>> \o BaseC] }

\* SSL_ENABLED
EnvSsl == {"unset", "true", "false"}

\* the steps of the TLS set-up, each of which panics when it fails
TlsSteps == <<"SSL_CERT_PATH", "SSL_KEY_PATH", "open_cert", "open_key",
              "certs", "pkcs8_private_keys", "remove", "set_single_cert">>
TlsStepSet == {TlsSteps[i] : i \in 1..Len(TlsSteps)}
TlsFaults == {"none"} \cup TlsStepSet

\* the environments; the TLS set-up is not varied where it is never run
Envs ==
    { e \in [UPSTREAM_SERVERS : EnvUpstreams, SSL_ENABLED : EnvSsl,
             port_ok : BOOLEAN, tls_fault : TlsFaults, bind_ok : BOOLEAN] :
        e.SSL_ENABLED # "true" => e.tls_fault = "none" }

\* every setting of UPSTREAM_SERVERS up to a length, over a letter, the comma
\* and the space
MaxCfgLen == 4
CfgChars == {"a", Comma, Space}
CfgStrings == UNION {[1..n -> CfgChars] : n \in 0..MaxCfgLen}
EnvsPool ==
    { [UPSTREAM_SERVERS |-> [set |-> TRUE, val |-> s], SSL_ENABLED |-> "unset",
       port_ok |-> TRUE, tls_fault |-> "none", bind_ok |-> TRUE] :
        s \in CfgStrings }

\* request targets as hyper decodes them: origin-form and absolute-form
TargetXY == <<"/", "x", "?", "y", "=", "1">>
TargetAbs == Http \o SchemeSep \o <<"h", "/", "x">>

InboundRequests ==
    { [method |-> "POST", uri |-> ParseUri(TargetXY).uri,
       headers |-> {<<"host", "p">>, <<"x-a", "1">>}, body |-> <<"d">>],
      [method |-> "GET", uri |-> ParseUri(TargetAbs).uri,
       headers |-> {<<"host", "h">>}, body |-> <<>>] }

NoReq == [method |-> "GET", uri |-> NoUri, headers |-> {}, body |-> <<>>]
NoRes == [status |-> 0, from |-> <<>>]

\* what an upstream may answer
Statuses == {200, 500}

----------------------------------------------------------------------------
(* handle_proxy, as functions of its locals *)

\* a fetch_add whose store is lost: the counter keeps its value
FetchAddLost(c) == c

\* a fetch_add that advances the counter by two
FetchAddTwice(c) == (c + 2) % Modulus

\* counter.fetch_add(1, SeqCst): the stored value, wrapping at the width of usize
FetchAdd(c) == (c + 1) % Modulus

\* an index taken from the value after the increment
SelectIndexAfter(v, len) == (v + 1) % len

\* the index of the draw: the fetched value modulo the length of the pool
SelectIndex(v, len) == v % len

\* format!("{}{}", upstream_server, req.uri())
FormatTarget(base, uri) == base \o Display(uri)

\* a builder left with its default method
ProxyReqDefaultMethod(req, uri) ==
    [method |-> "GET", uri |-> uri, headers |-> {}, body |-> req.body]

\* Request::builder().method(req.method()).uri(uri).body(req.into_body())
ProxyReq(req, uri) ==
    [method |-> req.method, uri |-> uri, headers |-> {}, body |-> req.body]

\* a fresh, empty response in place of the upstream's
OkResEmpty(res) == NoRes

\* Ok(res)
OkRes(res) == res

\* hyper's client sends only to an absolute-form URI
IsAbsolute(u) == u.scheme # <<>> /\ u.authority # <<>>

\* a failure that is ignored
ExpectIgnored(ok) == TRUE

\* expect / unwrap: continue on success, panic otherwise
Expect(ok) == ok

----------------------------------------------------------------------------
(* The state *)

VARIABLES
    env,               \* the environment the process was started in
    pc_main,           \* where main is
    upstream_servers,  \* the pool: Arc<Vec<String>>
    counter,           \* the cursor: Arc<AtomicUsize>
    ssl_enabled,       \* the mode chosen at startup
    tls_loaded,        \* the outcome of every step of the TLS set-up made
    conn,              \* the state of every connection
    task,              \* the locals of the handle_proxy call of every connection
    calls,             \* history: the calls in the order of their draws
    stream,            \* the responses written on every connection
    logged,            \* what the task of every connection wrote to stderr
    nreq               \* history: the requests decoded so far

vars == <<env, pc_main, upstream_servers, counter, ssl_enabled, tls_loaded,
          conn, task, calls, stream, logged, nreq>>

Conns == 1..MaxConns

IdleTask == [pc |-> "idle", req |-> NoReq, id |-> 0, index |-> 0,
             uri_string |-> <<>>, proxy_req |-> NoReq]

Init ==
    /\ env \in Envs
    /\ pc_main = "config"
    /\ upstream_servers = <<>>
    /\ counter = 0
    /\ ssl_enabled = FALSE
    /\ tls_loaded = <<>>
    /\ conn = [c \in Conns |-> "Pending"]
    /\ task = [c \in Conns |-> IdleTask]
    /\ calls = <<>>
    /\ stream = [c \in Conns |-> <<>>]
    /\ logged = [c \in Conns |-> "none"]
    /\ nreq = 0

----------------------------------------------------------------------------
(* main: startup *)

\* the pool: the setting, or its default, split on commas, every piece trimmed
BuildPool(e) ==
    LET str == IF e.set THEN e.val ELSE DefaultUpstream
        pieces == Split(str, Comma)
    IN  [i \in 1..Len(pieces) |-> Trim(pieces[i])]

\* SSL_ENABLED, "false" when unset, compared with "true"
SslEnabled(v) == (IF v = "unset" THEN "false" ELSE v) = "true"

\* lines 39-59: the pool, the counter, the mode and the port
ReadConfig ==
    /\ pc_main = "config"
    /\ upstream_servers' = BuildPool(env.UPSTREAM_SERVERS)
    /\ counter' = 0
    /\ ssl_enabled' = SslEnabled(env.SSL_ENABLED)
    /\ pc_main' = IF ~Expect(env.port_ok) THEN "aborted"
                  ELSE IF SslEnabled(env.SSL_ENABLED) THEN "tls"
                  ELSE "bind"
    /\ UNCHANGED <<env, tls_loaded, conn, task, calls, stream, nreq, logged>>

\* lines 63-80: the next step of the TLS set-up
LoadTlsStep ==
    /\ pc_main = "tls"
    /\ LET step == TlsSteps[Len(tls_loaded) + 1]
           ok == env.tls_fault # step
       IN  /\ tls_loaded' = Append(tls_loaded, ok)
           /\ pc_main' = IF ~Expect(ok) THEN "aborted"
                         ELSE IF Len(tls_loaded) + 1 = Len(TlsSteps)
                         THEN "bind"
                         ELSE "tls"
    /\ UNCHANGED <<env, upstream_servers, counter, ssl_enabled,
                   conn, task, calls, stream, logged, nreq>>

\* the TlsAcceptor exists once every step of the set-up has succeeded
TlsContextBuilt ==
    /\ Len(tls_loaded) = Len(TlsSteps)
    /\ \A i \in 1..Len(tls_loaded) : tls_loaded[i]

\* line 83 (TLS) and line 125 (plain): bind the listening socket
Bind ==
    /\ pc_main = "bind"
    /\ pc_main' = IF Expect(env.bind_ok) THEN "listening" ELSE "aborted"
    /\ UNCHANGED <<env, upstream_servers, counter, ssl_enabled, tls_loaded,
                   conn, task, calls, stream, logged, nreq>>

----------------------------------------------------------------------------
(* main: the accept loop and the connection tasks *)

\* an error that leaves the task and ends main
TaskReturnEndsMain(main) == "exited"

\* a return inside a spawned task ends that task and leaves main where it is
TaskReturn(main) == main

\* an accept loop that serves one connection to its end before the next accept
AcceptAfterPrevious(c) ==
    /\ pc_main = "listening"
    /\ conn[c] = "Pending"
    /\ \A d \in 1..(c - 1) : conn[d] = "Closed"
    /\ conn' = [conn EXCEPT ![c] = "Accepted"]
    /\ UNCHANGED <<env, pc_main, upstream_servers, counter, ssl_enabled,
                   tls_loaded, task, calls, stream, nreq, logged>>

\* lines 88 and 125: the next connection is accepted
Accept(c) ==
    /\ pc_main = "listening"
    /\ conn[c] = "Pending"
    /\ \A d \in 1..(c - 1) : conn[d] # "Pending"
    /\ conn' = [conn EXCEPT ![c] = "Accepted"]
    /\ UNCHANGED <<env, pc_main, upstream_servers, counter, ssl_enabled,
                   tls_loaded, task, calls, stream, nreq, logged>>

\* an exit of main that leaves the spawned tasks running
AcceptErrorKeepsTasks ==
    /\ pc_main = "listening"
    /\ ssl_enabled
    /\ pc_main' = "exited"
    /\ UNCHANGED <<env, upstream_servers, counter, ssl_enabled, tls_loaded,
                   conn, task, calls, stream, nreq, logged>>

\* line 88: listener.accept().await? fails and main returns the error; the
\* process exits, and the runtime drops every task with its connection
AcceptError ==
    /\ pc_main = "listening"
    /\ ssl_enabled
    /\ pc_main' = "exited"
    /\ conn' = [c \in Conns |->
                  IF conn[c] \in {"Pending", "Closed"} THEN conn[c]
                  ELSE "Abandoned"]
    /\ task' = [c \in Conns |-> IdleTask]
    /\ calls' = [i \in 1..Len(calls) |->
                   IF calls[i].outcome = "pending"
                   THEN [calls[i] EXCEPT !.outcome = "dropped"]
                   ELSE calls[i]]
    /\ UNCHANGED <<env, upstream_servers, counter, ssl_enabled, tls_loaded,
                   stream, nreq, logged>>

\* a task that serves the accepted stream as it is, without the handshake
StartHandshakeSkipped(c) ==
    /\ pc_main = "listening"
    /\ ssl_enabled
    /\ conn[c] = "Accepted"
    /\ conn' = [conn EXCEPT ![c] = "Serving"]
    /\ UNCHANGED <<env, pc_main, upstream_servers, counter, ssl_enabled,
                   tls_loaded, task, calls, stream, nreq, logged>>

\* lines 94-95: the spawned task starts the handshake
StartHandshake(c) ==
    /\ pc_main = "listening"
    /\ ssl_enabled
    /\ conn[c] = "Accepted"
    /\ conn' = [conn EXCEPT ![c] = "Handshaking"]
    /\ UNCHANGED <<env, pc_main, upstream_servers, counter, ssl_enabled,
                   tls_loaded, task, calls, stream, nreq, logged>>

\* a TLS connection served with a counter started anew
HandshakeOkNewCounter(c) ==
    /\ pc_main = "listening"
    /\ conn[c] = "Handshaking"
    /\ conn' = [conn EXCEPT ![c] = "Serving"]
    /\ counter' = 0
    /\ UNCHANGED <<env, pc_main, upstream_servers, ssl_enabled,
                   tls_loaded, task, calls, stream, nreq, logged>>

\* lines 96 and 103-108: the handshake succeeds, the connection is served
HandshakeOk(c) ==
    /\ pc_main = "listening"
    /\ conn[c] = "Handshaking"
    /\ conn' = [conn EXCEPT ![c] = "Serving"]
    /\ UNCHANGED <<env, pc_main, upstream_servers, counter, ssl_enabled,
                   tls_loaded, task, calls, stream, nreq, logged>>

\* lines 97-100: the handshake fails, the task logs and returns
HandshakeErr(c) ==
    /\ pc_main = "listening"
    /\ conn[c] = "Handshaking"
    /\ conn' = [conn EXCEPT ![c] = "Closed"]
    /\ logged' = [logged EXCEPT ![c] = "tls"]
    /\ pc_main' = TaskReturn(pc_main)
    /\ UNCHANGED <<env, upstream_servers, counter, ssl_enabled,
                   tls_loaded, task, calls, stream, nreq>>

\* lines 108-110: serve_connection returns the error of the call and the task
\* logs it; without TLS hyper's Server keeps the error to itself
ServeError(c) == IF ssl_enabled THEN "server" ELSE logged[c]

\* lines 115-123: without TLS the connection is served as it is accepted
StartServing(c) ==
    /\ pc_main = "listening"
    /\ ~ssl_enabled
    /\ conn[c] = "Accepted"
    /\ conn' = [conn EXCEPT ![c] = "Serving"]
    /\ UNCHANGED <<env, pc_main, upstream_servers, counter, ssl_enabled,
                   tls_loaded, task, calls, stream, nreq, logged>>

\* the peer closes its connection; a call in flight is dropped
PeerClose(c) ==
    /\ pc_main = "listening"
    /\ conn[c] = "Serving"
    /\ conn' = [conn EXCEPT ![c] = "Closed"]
    /\ task' = [task EXCEPT ![c] = IdleTask]
    /\ calls' = IF task[c].id = 0 THEN calls
                ELSE [calls EXCEPT ![task[c].id].outcome = "dropped"]
    /\ UNCHANGED <<env, pc_main, upstream_servers, counter, ssl_enabled,
                   tls_loaded, stream, nreq, logged>>

----------------------------------------------------------------------------
(* handle_proxy: one call per decoded request *)

\* lines 103-105 and 119-121: a request is decoded and handle_proxy is called
RecvRequest(c, r) ==
    /\ pc_main = "listening"
    /\ conn[c] = "Serving"
    /\ task[c].pc = "idle"
    /\ nreq < MaxRequests
    /\ task' = [task EXCEPT ![c] = [IdleTask EXCEPT !.pc = "l19", !.req = r]]
    /\ nreq' = nreq + 1
    /\ UNCHANGED <<env, pc_main, upstream_servers, counter, ssl_enabled,
                   tls_loaded, conn, calls, stream, logged>>

\* a call that parses its target before the draw and leaves the counter alone
\* when the target does not parse
DrawParseFirst(c) ==
    /\ pc_main = "listening"
    /\ task[c].pc = "l19"
    /\ LET v == counter
           index == SelectIndex(v, Len(upstream_servers))
           upstream_server == upstream_servers[index + 1]
           uri_string == FormatTarget(upstream_server, task[c].req.uri)
           uri == ParseUri(uri_string)
           proxy_req == ProxyReq(task[c].req, uri.uri)
           call == [conn |-> c, seq |-> v, index |-> index, sends |-> 0,
                    outcome |-> "pending", upres |-> NoRes]
       IN  IF uri.ok
           THEN /\ counter' = FetchAdd(counter)
                /\ task' = [task EXCEPT ![c].pc = "l31",
                                        ![c].id = Len(calls) + 1,
                                        ![c].index = index,
                                        ![c].uri_string = uri_string,
                                        ![c].proxy_req = proxy_req]
                /\ calls' = Append(calls, [call EXCEPT !.sends = 1])
                /\ conn' = conn
                /\ logged' = logged
           ELSE /\ counter' = counter
                /\ task' = [task EXCEPT ![c] = IdleTask]
                /\ calls' = Append(calls, [call EXCEPT !.outcome = "uri_err"])
                /\ conn' = [conn EXCEPT ![c] = "Closed"]
                /\ logged' = [logged EXCEPT ![c] = ServeError(c)]
    /\ UNCHANGED <<env, pc_main, upstream_servers, ssl_enabled, tls_loaded,
                   stream, nreq>>

\* lines 19-31, the first poll of the call: the draw, one atomic fetch_add, and
\* the index it gives; then, on locals alone, the target is formatted and
\* parsed and the request built and sent. A target that does not parse ends
\* the call, and with it the connection.
Draw(c) ==
    /\ pc_main = "listening"
    /\ task[c].pc = "l19"
    /\ LET v == counter
           index == SelectIndex(v, Len(upstream_servers))
           upstream_server == upstream_servers[index + 1]
           uri_string == FormatTarget(upstream_server, task[c].req.uri)
           uri == ParseUri(uri_string)
           proxy_req == ProxyReq(task[c].req, uri.uri)
           call == [conn |-> c, seq |-> v, index |-> index, sends |-> 0,
                    outcome |-> "pending", upres |-> NoRes]
       IN  /\ counter' = FetchAdd(counter)
           /\ IF uri.ok
              THEN /\ task' = [task EXCEPT ![c].pc = "l31",
                                           ![c].id = Len(calls) + 1,
                                           ![c].index = index,
                                           ![c].uri_string = uri_string,
                                           ![c].proxy_req = proxy_req]
                   /\ calls' = Append(calls, [call EXCEPT !.sends = 1])
                   /\ conn' = conn
                   /\ logged' = logged
              ELSE /\ task' = [task EXCEPT ![c] = IdleTask]
                   /\ calls' = Append(calls, [call EXCEPT !.outcome = "uri_err"])
                   /\ conn' = [conn EXCEPT ![c] = "Closed"]
                   /\ logged' = [logged EXCEPT ![c] = ServeError(c)]
    /\ UNCHANGED <<env, pc_main, upstream_servers, ssl_enabled, tls_loaded,
                   stream, nreq>>

\* lines 31-33 and 108: the upstream the request went to answers, the response
\* is returned and written on the connection
UpstreamAnswer(c, st) ==
    /\ pc_main = "listening"
    /\ task[c].pc = "l31"
    /\ IsAbsolute(task[c].proxy_req.uri)
    /\ LET res == [status |-> st, from |-> task[c].proxy_req.uri.authority]
       IN  /\ stream' = [stream EXCEPT ![c] = Append(@, OkRes(res))]
           /\ calls' = [calls EXCEPT ![task[c].id].upres = res,
                                     ![task[c].id].outcome = "ok"]
    /\ task' = [task EXCEPT ![c] = IdleTask]
    /\ UNCHANGED <<env, pc_main, upstream_servers, counter, ssl_enabled,
                   tls_loaded, conn, nreq, logged>>

\* a call that sends the request once more when client.request fails
TransportFailRetried(c) ==
    /\ pc_main = "listening"
    /\ task[c].pc = "l31"
    /\ calls' = [calls EXCEPT ![task[c].id].sends = @ + 1]
    /\ UNCHANGED <<env, pc_main, upstream_servers, counter, ssl_enabled,
                   tls_loaded, conn, task, stream, nreq, logged>>

\* an error of client.request that takes the whole server's connections down
TransportFailClosesAll(c) ==
    /\ pc_main = "listening"
    /\ task[c].pc = "l31"
    /\ task' = [d \in Conns |-> IdleTask]
    /\ calls' = [i \in 1..Len(calls) |->
                   IF i = task[c].id
                   THEN [calls[i] EXCEPT !.outcome = "transport_err"]
                   ELSE IF calls[i].outcome = "pending"
                   THEN [calls[i] EXCEPT !.outcome = "dropped"]
                   ELSE calls[i]]
    /\ conn' = [d \in Conns |->
                  IF conn[d] = "Pending" THEN "Pending" ELSE "Closed"]
    /\ logged' = [logged EXCEPT ![c] = ServeError(c)]
    /\ UNCHANGED <<env, pc_main, upstream_servers, counter, ssl_enabled,
                   tls_loaded, stream, nreq>>

\* line 31: client.request fails; the error ends the call and the connection
TransportFail(c) ==
    /\ pc_main = "listening"
    /\ task[c].pc = "l31"
    /\ task' = [task EXCEPT ![c] = IdleTask]
    /\ calls' = [calls EXCEPT ![task[c].id].outcome = "transport_err"]
    /\ conn' = [conn EXCEPT ![c] = "Closed"]
    /\ logged' = [logged EXCEPT ![c] = ServeError(c)]
    /\ UNCHANGED <<env, pc_main, upstream_servers, counter, ssl_enabled,
                   tls_loaded, stream, nreq>>

----------------------------------------------------------------------------
(* The specification *)

Next ==
    \/ ReadConfig
    \/ LoadTlsStep
    \/ Bind
    \/ AcceptError
    \/ \E c \in Conns : Accept(c)
    \/ \E c \in Conns : StartHandshake(c)
    \/ \E c \in Conns : HandshakeOk(c)
    \/ \E c \in Conns : HandshakeErr(c)
    \/ \E c \in Conns : StartServing(c)
    \/ \E c \in Conns : PeerClose(c)
    \/ \E c \in Conns : \E r \in InboundRequests : RecvRequest(c, r)
    \/ \E c \in Conns : Draw(c)
    \/ \E c \in Conns : \E st \in Statuses : UpstreamAnswer(c, st)
    \/ \E c \in Conns : TransportFail(c)

Spec == Init /\ [][Next]_vars

\* the plain server started with any setting of UPSTREAM_SERVERS
InitPool ==
    /\ env \in EnvsPool
    /\ pc_main = "config"
    /\ upstream_servers = <<>>
    /\ counter = 0
    /\ ssl_enabled = FALSE
    /\ tls_loaded = <<>>
    /\ conn = [c \in Conns |-> "Pending"]
    /\ task = [c \in Conns |-> IdleTask]
    /\ calls = <<>>
    /\ stream = [c \in Conns |-> <<>>]
    /\ logged = [c \in Conns |-> "none"]
    /\ nreq = 0

\* the steps of the plain server with its first connection, whose calls draw
\* one after the other
NextPool ==
    \/ ReadConfig
    \/ Bind
    \/ Accept(1)
    \/ StartServing(1)
    \/ PeerClose(1)
    \/ \E r \in InboundRequests : RecvRequest(1, r)
    \/ Draw(1)
    \/ \E st \in Statuses : UpstreamAnswer(1, st)
    \/ TransportFail(1)

SpecPool == InitPool /\ [][NextPool]_vars

\* the values of the counter from which a few calls take it to its maximum
NearWrap == {Modulus - 2, Modulus - 1}

\* the server listening after so many calls that the counter is near its
\* maximum; the connections of those calls are gone, their calls not recorded
InitWrap ==
    /\ env \in {e \in Envs : e.port_ok /\ e.bind_ok /\ e.tls_fault = "none"}
    /\ pc_main = "listening"
    /\ upstream_servers = BuildPool(env.UPSTREAM_SERVERS)
    /\ counter \in NearWrap
    /\ ssl_enabled = SslEnabled(env.SSL_ENABLED)
    /\ tls_loaded = IF SslEnabled(env.SSL_ENABLED)
                    THEN [i \in 1..Len(TlsSteps) |-> TRUE]
                    ELSE <<>>
    /\ conn = [c \in Conns |-> "Pending"]
    /\ task = [c \in Conns |-> IdleTask]
    /\ calls = <<>>
    /\ stream = [c \in Conns |-> <<>>]
    /\ logged = [c \in Conns |-> "none"]
    /\ nreq = 0

\* the steps of the server once it listens
NextWrap ==
    \/ AcceptError
    \/ \E c \in Conns : Accept(c)
    \/ \E c \in Conns : StartHandshake(c)
    \/ \E c \in Conns : HandshakeOk(c)
    \/ \E c \in Conns : HandshakeErr(c)
    \/ \E c \in Conns : StartServing(c)
    \/ \E c \in Conns : PeerClose(c)
    \/ \E c \in Conns : \E r \in InboundRequests : RecvRequest(c, r)
    \/ \E c \in Conns : Draw(c)
    \/ \E c \in Conns : \E st \in Statuses : UpstreamAnswer(c, st)
    \/ \E c \in Conns : TransportFail(c)

SpecWrap == InitWrap /\ [][NextWrap]_vars

\* the upstreams: those that answer every request, one that accepts a request
\* and never answers; a request to any other authority fails to connect
Answering == {<<"a", ":", "1">>, <<"h">>,
              <<"l", "o", "c", "a", "l", "h", "o", "s", "t", ":",
                "8", "0", "8", "0">>}
Hanging == {<<"c">>}

\* client.request has an upstream that answers
Answers(u) == IsAbsolute(u) /\ u.authority \in Answering

\* a client.request that gives up on an upstream that is silent
FailsOrTimesOut(u) == ~IsAbsolute(u) \/ u.authority \notin Answering

\* client.request fails: the target is not absolute or nothing is reached;
\* waiting for an answer never fails
Fails(u) == ~IsAbsolute(u) \/ u.authority \notin (Answering \cup Hanging)

\* pools with an upstream of each kind: one starts with the upstream that
\* answers, one with the upstream that hangs
EnvUpstreamsReach ==
    { [set |-> TRUE,
       val |-> <<Space>> \o BaseA1 \o <<"/", Space, Comma, Space>>
               \o BaseB2 \o <<Space, Comma>> \o BaseC],
      [set |-> TRUE, val |-> BaseC \o <<Comma>> \o BaseA1] }

\* the environments where startup succeeds
EnvsReach ==
    [UPSTREAM_SERVERS : EnvUpstreamsReach, SSL_ENABLED : {"true", "false"},
     port_ok : {TRUE}, tls_fault : {"none"}, bind_ok : {TRUE}]

\* the server started in an environment where startup and accept succeed
InitReach ==
    /\ env \in EnvsReach
    /\ pc_main = "config"
    /\ upstream_servers = <<>>
    /\ counter = 0
    /\ ssl_enabled = FALSE
    /\ tls_loaded = <<>>
    /\ conn = [c \in Conns |-> "Pending"]
    /\ task = [c \in Conns |-> IdleTask]
    /\ calls = <<>>
    /\ stream = [c \in Conns |-> <<>>]
    /\ logged = [c \in Conns |-> "none"]
    /\ nreq = 0

NextReach ==
    \/ ReadConfig
    \/ LoadTlsStep
    \/ Bind
    \/ \E c \in Conns : Accept(c)
    \/ \E c \in Conns : StartHandshake(c)
    \/ \E c \in Conns : HandshakeOk(c)
    \/ \E c \in Conns : HandshakeErr(c)
    \/ \E c \in Conns : StartServing(c)
    \/ \E c \in Conns : PeerClose(c)
    \/ \E c \in Conns : \E r \in InboundRequests : RecvRequest(c, r)
    \/ \E c \in Conns : Draw(c)
    \/ \E c \in Conns : \E st \in Statuses :
           Answers(task[c].proxy_req.uri) /\ UpstreamAnswer(c, st)
    \/ \E c \in Conns : Fails(task[c].proxy_req.uri) /\ TransportFail(c)

\* an upstream that answers does answer, and the task of the call is polled
\* when it has
FairReach ==
    \A c \in Conns :
        WF_vars(\E st \in Statuses :
                    Answers(task[c].proxy_req.uri) /\ UpstreamAnswer(c, st))

SpecReach == InitReach /\ [][NextReach]_vars /\ FairReach


----------------------------------------------------------------------------
(* Helpers of the properties *)

IsPrefix(p, q) == Len(p) <= Len(q) /\ SubSeq(q, 1, Len(p)) = p

\* the calls drawn so far that selected pool index k
DrawsOf(k) == {i \in 1..Len(calls) : calls[i].index = k}

\* the upstream responses of the calls of connection c that succeeded, in order
AnsweredOn(c) ==
    LET Mine(x) == x.conn = c /\ x.outcome = "ok"
        mine == SelectSeq(calls, Mine)
    IN  [i \in 1..Len(mine) |-> mine[i].upres]

\* the connections whose call has built and sent its outbound request
InFlight == {c \in Conns : task[c].pc = "l31"}

----------------------------------------------------------------------------
(* The round-robin cursor *)

\* C1: the Nth call to draw (N from 0) selects pool[N mod pool.length], and the
\* target it forms starts with that pool entry; when the number of draws is a
\* multiple of the pool length, every index has been selected equally often.
Thm_C1_NthDrawSelectsNModLen ==
    LET n == Len(upstream_servers)
    IN  /\ \A i \in 1..Len(calls) : calls[i].index = (i - 1) % n
        /\ \A c \in InFlight :
               IsPrefix(upstream_servers[((task[c].id - 1) % n) + 1],
                        task[c].uri_string)
        /\ (Len(calls) > 0 /\ Len(calls) % n = 0) =>
               \A k \in 0..(n - 1) :
                   Cardinality(DrawsOf(k)) = Len(calls) \div n

\* three draws from two connections over a pool of three
Wit_C1_FullCycle ==
    /\ Len(upstream_servers) = 3
    /\ Len(calls) = 3
    /\ \E i, j \in 1..Len(calls) : calls[i].conn # calls[j].conn

\* C2: the sequence numbers drawn by any run of consecutive draws, whatever
\* connections made them, are pairwise distinct and are exactly the range that
\* starts at the first of them, none repeated and none skipped.
Thm_C2_DrawsDistinctAndContiguous ==
    \A a \in 1..Len(calls) : \A b \in a..Len(calls) :
        /\ {calls[i].seq : i \in a..b} = calls[a].seq..(calls[a].seq + (b - a))
        /\ \A i, j \in a..b : i # j => calls[i].seq # calls[j].seq

\* two calls of different connections in flight at once
Wit_C2_TwoCallsInFlight ==
    /\ Cardinality(InFlight) >= 2
    /\ \E c, d \in InFlight :
           c # d /\ calls[task[c].id].seq # calls[task[d].id].seq

\* C7: the cursor equals the number of calls that have drawn, each call in
\* flight has its one draw, a draw advances the cursor by exactly one whatever
\* the outcome of the call, and no other step changes the cursor.
Thm_C7_OneAdvancePerCall ==
    /\ [](/\ counter = Len(calls)
          /\ \A c \in InFlight :
                 /\ task[c].id \in 1..Len(calls)
                 /\ calls[task[c].id].conn = c
                 /\ calls[task[c].id].outcome = "pending")
    /\ [][/\ (\E c \in Conns : Draw(c)) => counter' = counter + 1
          /\ counter' # counter => \E c \in Conns : Draw(c)]_vars

\* a success, a target that did not parse and a transport failure, three draws
Wit_C7_ThreeOutcomes ==
    /\ counter = 3
    /\ \E i, j, k \in 1..Len(calls) :
           /\ calls[i].outcome = "ok"
           /\ calls[j].outcome = "uri_err"
           /\ calls[k].outcome = "transport_err"

----------------------------------------------------------------------------
(* The outbound request and the response *)

\* C3: the target of the outbound request is the selected upstream base
\* followed by the path and query of the inbound request, and nothing else.
Claim_C3_TargetIsBasePlusPathAndQuery ==
    \A c \in InFlight :
        Display(task[c].proxy_req.uri)
            = upstream_servers[task[c].index + 1]
              \o PathAndQuery(task[c].req.uri)

\* C4: the headers of the outbound request are the headers of the inbound one.
Claim_C4_HeadersPassedThrough ==
    \A c \in InFlight : task[c].proxy_req.headers = task[c].req.headers

\* C5: the outbound request has the method and the body of the inbound request.
Thm_C5_MethodAndBodyKept ==
    \A c \in InFlight :
        /\ task[c].proxy_req.method = task[c].req.method
        /\ task[c].proxy_req.body = task[c].req.body

\* a POST with a body has been sent on to an upstream
Wit_C5_PostWithBodySent ==
    \E c \in InFlight :
        /\ task[c].req.method = "POST"
        /\ task[c].req.body # <<>>
        /\ IsAbsolute(task[c].proxy_req.uri)

\* C6: what has been written on a connection is, in order, exactly what the
\* upstreams answered to the calls made for the requests of that connection.
Thm_C6_ResponseOnItsConnection ==
    \A c \in Conns : stream[c] = AnsweredOn(c)

\* two connections with calls in flight at once, the later draw answered first
Wit_C6_AnsweredOutOfOrder ==
    /\ Len(calls) >= 2
    /\ calls[1].conn # calls[2].conn
    /\ calls[1].outcome = "pending"
    /\ calls[2].outcome = "ok"
    /\ stream[calls[2].conn] # <<>>
    /\ stream[calls[1].conn] = <<>>

----------------------------------------------------------------------------
(* Startup and the listener *)

\* C8: the listener is never bound with a pool that holds no upstream address.
Claim_C8_NoListenerOnEmptyPool ==
    pc_main = "listening" =>
        \E i \in 1..Len(upstream_servers) : upstream_servers[i] # <<>>

\* C9: with TLS enabled every step of the TLS set-up has succeeded before the
\* listener binds or a connection is accepted, and a step that failed has
\* aborted the process.
Thm_C9_TlsContextBeforeBind ==
    ssl_enabled =>
        /\ (pc_main \in {"bind", "listening", "exited"}
               \/ \E c \in Conns : conn[c] # "Pending") => TlsContextBuilt
        /\ (\E i \in 1..Len(tls_loaded) : ~tls_loaded[i]) => pc_main = "aborted"

\* a TLS listener that has accepted a connection
Wit_C9_TlsListenerAccepted ==
    /\ ssl_enabled
    /\ pc_main = "listening"
    /\ conn[1] = "Handshaking"

\* C10: a failed handshake closes its own connection, which has made no call and
\* stays closed; it leaves the listener listening and changes neither another
\* connection nor the cursor.
Thm_C10_HandshakeFailureIsLocal ==
    [][/\ \A c \in Conns :
              HandshakeErr(c) =>
                  /\ conn'[c] = "Closed"
                  /\ \A d \in Conns \ {c} : conn'[d] = conn[d]
                  /\ pc_main = "listening" /\ pc_main' = "listening"
                  /\ counter' = counter /\ calls' = calls /\ task' = task
                  /\ \A i \in 1..Len(calls) : calls[i].conn # c
       /\ \A c \in Conns :
              logged[c] = "tls" =>
                  /\ conn'[c] = "Closed"
                  /\ \A i \in 1..Len(calls') : calls'[i].conn # c]_vars

\* one handshake has failed while the other connection is served
Wit_C10_FailedBesideServing ==
    /\ pc_main = "listening"
    /\ \E c, d \in Conns :
           /\ logged[c] = "tls" /\ conn[c] = "Closed"
           /\ conn[d] = "Serving" /\ task[d].pc = "l31"


----------------------------------------------------------------------------
(* The transport mode *)

\* C11: the mode is fixed once the configuration is read. With TLS a connection
\* enters Serving only from Handshaking, without TLS only from Accepted and it
\* is never in Handshaking; a call is made only on a connection in Serving.
Thm_C11_ModeFixedAndGatesServing ==
    /\ [](\A c \in Conns :
              /\ conn[c] = "Handshaking" => ssl_enabled
              /\ task[c].pc # "idle" => conn[c] = "Serving")
    /\ [][/\ pc_main # "config" => ssl_enabled' = ssl_enabled
          /\ \A c \in Conns :
                 (conn'[c] = "Serving" /\ conn[c] # "Serving") =>
                     conn[c] = (IF ssl_enabled THEN "Handshaking" ELSE "Accepted")
          /\ \A c \in Conns :
                 (conn[c] = "Accepted" /\ conn'[c] # "Accepted") =>
                     conn'[c] \in (IF ssl_enabled
                                   THEN {"Handshaking", "Abandoned"}
                                   ELSE {"Serving"})
          /\ \A i \in (Len(calls) + 1)..Len(calls') :
                 conn[calls'[i].conn] = "Serving"]_vars

\* with TLS, one connection past its handshake with a call in flight while the
\* other is still in its handshake
Wit_C11_ServingAfterHandshake ==
    /\ ssl_enabled
    /\ \E c, d \in Conns :
           /\ conn[c] = "Serving" /\ task[c].pc = "l31"
           /\ conn[d] = "Handshaking"


----------------------------------------------------------------------------
(* A call that fails *)

Failed(call) == call.outcome \in {"uri_err", "transport_err"}

\* C12: a call that fails, on the parse of its target or on the transport,
\* closes its connection and writes nothing on it; the call has sent at most
\* one request and sends no other; the listener keeps listening and every
\* other connection is left as it was.
Thm_C12_FailedCallEndsOnlyItsConnection ==
    /\ [](\A i \in 1..Len(calls) :
              /\ calls[i].sends <= 1
              /\ calls[i].outcome = "uri_err" => calls[i].sends = 0
              /\ calls[i].outcome = "transport_err" => calls[i].sends = 1)
    /\ [][/\ \A i \in 1..Len(calls') :
                 (Failed(calls'[i]) /\ (i > Len(calls) \/ ~Failed(calls[i]))) =>
                     LET c == calls'[i].conn
                     IN  /\ conn[c] = "Serving" /\ conn'[c] = "Closed"
                         /\ task'[c] = IdleTask
                         /\ stream' = stream
                         /\ pc_main = "listening" /\ pc_main' = "listening"
                         /\ \A d \in Conns \ {c} :
                                conn'[d] = conn[d] /\ task'[d] = task[d]
          /\ \A i \in 1..Len(calls) :
                 Failed(calls[i]) => calls'[i] = calls[i]
          /\ \A c \in Conns :
                 conn[c] = "Closed" => conn'[c] = "Closed" /\ stream'[c] = stream[c]
         ]_vars

\* a call failed on the transport: its connection is closed with nothing
\* written on it, while the other connection is being served and the listener
\* listens
Wit_C12_TransportFailureBesideServing ==
    /\ pc_main = "listening"
    /\ \E i \in 1..Len(calls) : \E d \in Conns :
           /\ calls[i].outcome = "transport_err"
           /\ conn[calls[i].conn] = "Closed"
           /\ stream[calls[i].conn] = <<>>
           /\ d # calls[i].conn
           /\ conn[d] = "Serving" /\ task[d].pc = "l31"


----------------------------------------------------------------------------
(* The accept loop beside the connections *)

Stalled(c) ==
    \/ conn[c] = "Handshaking"
    \/ conn[c] = "Serving" /\ task[c].pc = "l31"

\* C14: while the listener listens and a connection is waiting to be accepted,
\* accepting it is enabled whatever state the accepted connections are in, and
\* an accepted connection can start its handling whatever the others do.
Thm_C14_AcceptNeverBlocked ==
    pc_main = "listening" =>
        /\ (\E c \in Conns : conn[c] = "Pending") =>
               ENABLED (\E c \in Conns : Accept(c))
        /\ \A c \in Conns :
               conn[c] = "Accepted" =>
                   ENABLED (StartHandshake(c) \/ StartServing(c))

\* a connection was accepted while an earlier one is stalled in its handshake
\* or waits on its upstream
Wit_C14_AcceptedBesideStalled ==
    /\ pc_main = "listening"
    /\ \E c, d \in Conns :
           /\ c < d
           /\ Stalled(c)
           /\ conn[d] = "Accepted"


----------------------------------------------------------------------------
(* A target that does not parse *)

Reported(c) == IF ssl_enabled THEN "server" ELSE "none"

\* C16: a call whose target does not parse sends no request, yet it took its
\* draw: the counter is past its ticket and the next call goes to the
\* following position of the pool. Its failure closes the connection and is
\* reported as a failure of the transport is.
Thm_C16_ParseFailureStillAdvances ==
    \A i \in 1..Len(calls) :
        /\ calls[i].outcome = "uri_err" =>
               /\ calls[i].sends = 0
               /\ calls[i].upres = NoRes
               /\ calls[i].seq = i - 1
               /\ counter >= i
               /\ i < Len(calls) =>
                      calls[i + 1].index =
                          (calls[i].index + 1) % Len(upstream_servers)
        /\ Failed(calls[i]) =>
               /\ conn[calls[i].conn] = "Closed"
               /\ logged[calls[i].conn] = Reported(calls[i].conn)

\* a call failed on the parse of its target and the call after it was drawn;
\* another call failed on the transport
Wit_C16_DrawAfterParseFailure ==
    \E i, j \in 1..Len(calls) :
        /\ calls[i].outcome = "uri_err"
        /\ i < Len(calls)
        /\ calls[i + 1].index # calls[i].index
        /\ calls[j].outcome = "transport_err"


----------------------------------------------------------------------------
(* The selection cannot fault *)

Commas(s) == Cardinality({i \in 1..Len(s) : s[i] = Comma})

\* C17: whatever the setting of UPSTREAM_SERVERS, the pool built from it has
\* one server more than the setting has commas, so at least one; every index
\* drawn lies in 0..len-1 and the server at that index starts the target.
Thm_C17_PoolNeverEmptyIndexInRange ==
    pc_main # "config" =>
        /\ Len(upstream_servers) >= 1
        /\ env.UPSTREAM_SERVERS.set =>
               Len(upstream_servers) = Commas(env.UPSTREAM_SERVERS.val) + 1
        /\ \A i \in 1..Len(calls) :
               calls[i].index \in 0..(Len(upstream_servers) - 1)
        /\ \A c \in Conns :
               task[c].pc = "l31" =>
                   /\ task[c].index \in 0..(Len(upstream_servers) - 1)
                   /\ IsPrefix(upstream_servers[task[c].index + 1],
                               task[c].uri_string)

\* a setting with an empty piece gave a pool of several servers, and a call
\* drew its last position
Wit_C17_LastPositionOfSplitPool ==
    /\ Len(upstream_servers) >= 2
    /\ \E k \in 1..Len(upstream_servers) : upstream_servers[k] = <<>>
    /\ \E i \in 1..Len(calls) : calls[i].index = Len(upstream_servers) - 1


----------------------------------------------------------------------------
(* An error of accept *)

\* C19: main has returned on an error of accept only with TLS; then nothing
\* more happens: no connection is accepted, none is in its handshake or being
\* served, no call is in flight, and the connections that were in progress
\* are abandoned, which they are at that exit only.
Thm_C19_AcceptErrorEndsEverything ==
    /\ pc_main = "exited" =>
           /\ ssl_enabled
           /\ TlsContextBuilt
           /\ \A c \in Conns :
                  /\ conn[c] \in {"Pending", "Closed", "Abandoned"}
                  /\ task[c] = IdleTask
           /\ InFlight = {}
           /\ ~ ENABLED Next
    /\ \A c \in Conns : conn[c] = "Abandoned" => pc_main = "exited"

\* main has returned: a connection that was being served when accept failed is
\* abandoned with its call dropped, another was never accepted
Wit_C19_ExitedWithAbandoned ==
    /\ pc_main = "exited"
    /\ \E c, d \in Conns :
           /\ conn[c] = "Abandoned"
           /\ \E i \in 1..Len(calls) :
                  calls[i].conn = c /\ calls[i].outcome = "dropped"
           /\ conn[d] = "Pending"


----------------------------------------------------------------------------
(* The two modes *)

\* what the k-th draw on a pool gives for a request, whatever the mode
DrawnIndex(k) == (k - 1) % Len(upstream_servers)
DrawnTarget(k, req) ==
    FormatTarget(upstream_servers[DrawnIndex(k) + 1], req.uri)

\* C20: with TLS or without, the k-th call in draw order takes the counter
\* value k-1 and the server at (k-1) mod len, and the request it sends is
\* built from its inbound request and that server alone: the draws, servers
\* and outbound requests are one function of pool and request order in both
\* modes.
Thm_C20_ModesDrawAlike ==
    /\ counter = Len(calls)
    /\ \A k \in 1..Len(calls) :
           /\ calls[k].seq = k - 1
           /\ calls[k].index = DrawnIndex(k)
    /\ \A c \in Conns :
           task[c].pc = "l31" =>
               LET k == task[c].id
                   uri == ParseUri(DrawnTarget(k, task[c].req))
               IN  /\ calls[k].conn = c
                   /\ task[c].uri_string = DrawnTarget(k, task[c].req)
                   /\ uri.ok
                   /\ task[c].proxy_req = ProxyReq(task[c].req, uri.uri)

\* with TLS, the second and third calls in draw order are in flight on two
\* connections past their handshakes
Wit_C20_TlsCallsInFlight ==
    /\ ssl_enabled
    /\ Len(calls) = 3
    /\ \E c, d \in Conns :
           /\ c # d
           /\ task[c].pc = "l31" /\ task[c].id = 2
           /\ task[d].pc = "l31" /\ task[d].id = 3


----------------------------------------------------------------------------
(* The counter at its maximum *)

\* C15: every call leaves the counter greater than the value it drew, so the
\* values drawn increase from call to call, and each call draws the position
\* that follows the position of the call before it, the maximum of the
\* counter included.
Claim_C15_MonotoneAndCyclicAcrossWrap ==
    /\ \A i \in 1..Len(calls) :
           /\ i < Len(calls) =>
                  /\ calls[i + 1].seq > calls[i].seq
                  /\ calls[i + 1].index =
                         (calls[i].index + 1) % Len(upstream_servers)
           /\ i = Len(calls) => counter > calls[i].seq


----------------------------------------------------------------------------
(* Upstreams that fail and upstreams that hang *)

\* call k is in flight to an upstream that answers
Awaited(k) ==
    /\ k <= Len(calls)
    /\ calls[k].outcome = "pending"
    /\ Answers(task[calls[k].conn].proxy_req.uri)

\* call k has ended with the response of its upstream written on its
\* connection, or the peer has closed the connection
Served(k) ==
    /\ k <= Len(calls)
    /\ \/ /\ calls[k].outcome = "ok"
          /\ calls[k].upres.from \in Answering
          /\ \E n \in 1..Len(stream[calls[k].conn]) :
                 stream[calls[k].conn][n] = calls[k].upres
       \/ calls[k].outcome = "dropped"

\* another connection than that of call k had its call fail on the transport
FailedBeside(k) ==
    \E i \in 1..Len(calls) :
        /\ calls[i].outcome = "transport_err"
        /\ calls[i].conn # calls[k].conn

\* C13: when a call fails on an unreachable upstream, every other connection
\* and the listener are left as they were; a call in flight to an upstream
\* that answers, beside a connection whose call failed, ends with that
\* upstream's response written on its connection, unless its peer closes.
Thm_C13_ReachableServedBesideUnreachable ==
    /\ [][\A i \in 1..Len(calls) :
             (calls[i].outcome = "pending" /\ calls'[i].outcome = "transport_err")
                 => /\ Fails(task[calls[i].conn].proxy_req.uri)
                    /\ pc_main' = "listening"
                    /\ \A d \in Conns \ {calls[i].conn} :
                           /\ conn'[d] = conn[d]
                           /\ task'[d] = task[d]
                           /\ stream'[d] = stream[d]]_vars
    /\ \A k \in 1..MaxRequests :
           (Awaited(k) /\ FailedBeside(k)) ~> Served(k)

\* a call has failed on the unreachable upstream and its connection is
\* closed, while the call of the other connection is in flight to an upstream
\* that answers
Wit_C13_FailedBesideAwaited ==
    \E k \in 1..Len(calls) :
        /\ Awaited(k)
        /\ FailedBeside(k)
        /\ \E i \in 1..Len(calls) :
               /\ calls[i].outcome = "transport_err"
               /\ conn[calls[i].conn] = "Closed"
               /\ task[calls[i].conn].pc = "idle"


\* the call of connection c waits on the upstream that never answers
Hung(c) ==
    /\ task[c].pc = "l31"
    /\ IsAbsolute(task[c].proxy_req.uri)
    /\ task[c].proxy_req.uri.authority \in Hanging

====
